---- MODULE Spec2Model ----
(***************************************************************************)
(* Maritime routing core: Graph construction with its spatial grid,        *)
(* nearest-node resolution, A* search and the findRoute / findDistance     *)
(* entry points.                                                           *)
(*                                                                         *)
(* Numbers.  Coordinates are whole degrees on a lattice (latitudes 0 and   *)
(* 60, longitudes multiples of 30), distances and edge weights are whole   *)
(* nautical miles.  On that lattice cos(lat) is exactly 1 or 1/2 and       *)
(* sin^2(dLat/2) is exactly 0 or 1/4, so the haversine term `a` is held    *)
(* as the integer 4000000 * a; the arc 2*atan2(sqrt a, sqrt(1-a)) times    *)
(* the Earth radius is tabulated at the values `a` takes there.            *)
(***************************************************************************)
EXTENDS Integers, Sequences, FiniteSets, TLC

VARIABLES
    nodesData,      \* getNodes(): the node tuples handed to the constructor
    edgesData,      \* getEdges(): the edge tuples handed to the constructor
    graphInstance,  \* index.ts: the lazily created Graph (NoGraph = null)
    constructed,    \* number of times the Graph constructor has run
    pc,             \* "idle", or "astar" while a search loop is running
    call,           \* the call in progress: its api and arguments
    openSet,        \* aStar: array of open entries
    closedSet,      \* aStar: set of finalized node ids
    gCost,          \* aStar: Map node id -> g-cost
    parent,         \* aStar: Map node id -> parent id
    searches,       \* number of aStar invocations made by the call in progress / last call
    result,         \* outcome of the last completed call
    lastRoute,      \* outcome of the last public findRoute call, kept while
                    \* only public calls (findRoute, findDistance) follow it
    heap,           \* PriorityQueue.heap (position i of the array is heap[i + 1])
    nodeIdToIndex,  \* PriorityQueue.nodeIdToIndex: node id -> array position
    queueOp,        \* the last PriorityQueue call: its name, whether its node id
                    \* was present, whether it changed the queue, what it returned
    latest          \* node id -> costs of its latest push/update, for the ids
                    \* pushed and not yet popped

queueVars == <<heap, nodeIdToIndex, queueOp, latest>>

vars == <<nodesData, edgesData, graphInstance, constructed, pc, call,
          openSet, closedSet, gCost, parent, searches, result, lastRoute,
          heap, nodeIdToIndex, queueOp, latest>>

----------------------------------------------------------------------------
(* Bounds of the model *)

MaxNodes == 3
MaxEdges == 2

----------------------------------------------------------------------------
(* heuristics.ts *)

\* sin^2(d/2) for a longitude difference of d degrees, times 1000000.
HavLon(d) ==
    LET x == IF d < 0 THEN -d ELSE d
    IN CASE x = 0 -> 0
         [] x = 30 -> 66987
         [] x = 60 -> 250000
         [] x = 90 -> 500000
         [] x = 120 -> 750000
         [] x = 150 -> 933013
         [] x = 180 -> 1000000
         [] x = 210 -> 933013

\* sin^2(d/2) for a latitude difference of d degrees, times 1000000.
HavLat(d) ==
    LET x == IF d < 0 THEN -d ELSE d
    IN CASE x = 0 -> 0
         [] x = 60 -> 250000

\* 2 * cos(lat).
TwoCos(lat) == CASE lat = 0 -> 2 [] lat = 60 -> 1

\* EARTH_RADIUS_NM * 2 * atan2(sqrt(a), sqrt(1 - a)) in whole nautical miles,
\* for a4 = 4000000 * a.
ArcNm(a4) ==
    CASE a4 = 0 -> 0
      [] a4 = 66987 -> 894
      [] a4 = 250000 -> 1740
      [] a4 = 267948 -> 1803
      [] a4 = 500000 -> 2489
      [] a4 = 750000 -> 3085
      [] a4 = 933013 -> 3472
      [] a4 = 1000000 -> 3606
      [] a4 = 1133974 -> 3867
      [] a4 = 1500000 -> 4539
      [] a4 = 2000000 -> 5410
      [] a4 = 2500000 -> 6280
      [] a4 = 2866026 -> 6952
      [] a4 = 3000000 -> 7213
      [] a4 = 3732052 -> 9016
      [] a4 = 4000000 -> 10819

haversineDistance(point1, point2) ==
    LET deltaLat == point2.lat - point1.lat
        deltaLon == point2.lon - point1.lon
        a4 == 4 * HavLat(deltaLat)
              + TwoCos(point1.lat) * TwoCos(point2.lat) * HavLon(deltaLon)
    IN ArcNm(a4)

----------------------------------------------------------------------------
(* graph.ts *)

\* An entry of the input collections: an array of numbers, or something else.
Arr(s) == [isArray |-> TRUE, items |-> s]
NotArr == [isArray |-> FALSE, items |-> <<>>]

\* Array.isArray(x) && x.length >= 3
WellFormed(e) == e.isArray /\ Len(e.items) >= 3

\* const [id, lon, lat] = nodeData
NodeOf(e) == [id |-> e.items[1], lat |-> e.items[3], lon |-> e.items[2]]

\* Mutant of LoadNodes: the loop ends at the first malformed entry.
RECURSIVE LoadNodesUntilMalformed(_)
LoadNodesUntilMalformed(data) ==
    IF data = <<>> \/ ~WellFormed(Head(data)) THEN <<>>
    ELSE <<NodeOf(Head(data))>> \o LoadNodesUntilMalformed(Tail(data))

RECURSIVE LoadNodes(_)
LoadNodes(data) ==
    IF data = <<>> THEN <<>>
    ELSE (IF WellFormed(Head(data)) THEN <<NodeOf(Head(data))>> ELSE <<>>)
         \o LoadNodes(Tail(data))

\* this.nodes.set(id, node): the last node pushed with an id wins.
NodeTable(arr) ==
    [id \in {arr[i].id : i \in DOMAIN arr} |->
        arr[CHOOSE i \in DOMAIN arr :
              arr[i].id = id /\ \A j \in DOMAIN arr : arr[j].id = id => j <= i]]

SetMin(S) == CHOOSE x \in S : \A y \in S : x <= y
SetMax(S) == CHOOSE x \in S : \A y \in S : y <= x

targetNodesPerCell == 20

\* Math.ceil(Math.sqrt(Math.ceil(nodeCount / targetNodesPerCell)))
GridResolution(nodeCount) ==
    LET totalCells == (nodeCount + targetNodesPerCell - 1) \div targetNodesPerCell
    IN CHOOSE k \in 0..totalCells :
         k * k >= totalCells /\ \A j \in 0..totalCells : j * j >= totalCells => k <= j

\* Mutant of ToGrid: the index is kept below the resolution.
ToGridClamped(x, lo, hi, resolution, empty) ==
    IF empty THEN "NaN"
    ELSE IF hi - lo = 0 THEN 0
    ELSE IF ((x - lo) * resolution) \div (hi - lo) >= resolution THEN resolution - 1
    ELSE ((x - lo) * resolution) \div (hi - lo)

\* The index of a coordinate on one axis.  The bounds of a graph without
\* nodes stay at +/-Infinity and the index is NaN.
NaN == "NaN"
ToGrid(x, lo, hi, resolution, empty) ==
    IF empty THEN NaN
    ELSE IF hi - lo = 0 THEN 0
    ELSE ((x - lo) * resolution) \div (hi - lo)

latToGrid(g, lat) == ToGrid(lat, g.minLat, g.maxLat, g.gridResolution, g.nodesArray = <<>>)
lonToGrid(g, lon) == ToGrid(lon, g.minLon, g.maxLon, g.gridResolution, g.nodesArray = <<>>)

\* `${gridLat},${gridLon}`
gridKey(gridLat, gridLon) == <<gridLat, gridLon>>

\* adjacencyList.get(a)!.push({nodeId: b, distance}), creating the list first
PushEdge(adj, a, b, distance) ==
    LET cur == IF a \in DOMAIN adj THEN adj[a] ELSE <<>>
    IN [x \in DOMAIN adj \cup {a} |->
          IF x = a THEN Append(cur, [nodeId |-> b, distance |-> distance]) ELSE adj[x]]

\* Mutant of LoadEdges: only the entry from -> to is added.
RECURSIVE LoadEdgesOneWay(_, _)
LoadEdgesOneWay(adj, data) ==
    IF data = <<>> THEN adj
    ELSE LET e == Head(data)
         IN IF WellFormed(e)
            THEN LoadEdgesOneWay(PushEdge(adj, e.items[1], e.items[2], e.items[3]),
                                 Tail(data))
            ELSE LoadEdgesOneWay(adj, Tail(data))

RECURSIVE LoadEdges(_, _)
LoadEdges(adj, data) ==
    IF data = <<>> THEN adj
    ELSE LET e == Head(data)
         IN IF WellFormed(e)
            THEN LoadEdges(PushEdge(PushEdge(adj, e.items[1], e.items[2], e.items[3]),
                                    e.items[2], e.items[1], e.items[3]),
                           Tail(data))
            ELSE LoadEdges(adj, Tail(data))

EmptyMap == [x \in {} |-> 0]

\* new Graph()
buildSpatialGrid(g) ==
    LET keyOf(n) == gridKey(latToGrid(g, n.lat), lonToGrid(g, n.lon))
        keys == {keyOf(g.nodesArray[i]) : i \in DOMAIN g.nodesArray}
    IN [k \in keys |-> SelectSeq(g.nodesArray, LAMBDA n : keyOf(n) = k)]

Graph(nodes, edges) ==
    LET arr == LoadNodes(nodes)
        lats == {arr[i].lat : i \in DOMAIN arr}
        lons == {arr[i].lon : i \in DOMAIN arr}
        base == [nodes |-> NodeTable(arr),
                 nodesArray |-> arr,
                 adjacencyList |-> LoadEdges(EmptyMap, edges),
                 gridResolution |-> GridResolution(Len(arr)),
                 minLat |-> IF arr = <<>> THEN "Infinity" ELSE SetMin(lats),
                 maxLat |-> IF arr = <<>> THEN "-Infinity" ELSE SetMax(lats),
                 minLon |-> IF arr = <<>> THEN "Infinity" ELSE SetMin(lons),
                 maxLon |-> IF arr = <<>> THEN "-Infinity" ELSE SetMax(lons)]
    IN [built |-> TRUE, nodes |-> base.nodes, nodesArray |-> base.nodesArray,
        adjacencyList |-> base.adjacencyList, gridResolution |-> base.gridResolution,
        minLat |-> base.minLat, maxLat |-> base.maxLat,
        minLon |-> base.minLon, maxLon |-> base.maxLon,
        spatialGrid |-> buildSpatialGrid(base)]

Undefined == [undefined |-> TRUE]

getNode(g, nodeId) == IF nodeId \in DOMAIN g.nodes THEN g.nodes[nodeId] ELSE Undefined
getAllNodes(g) == g.nodesArray
getNeighbors(g, nodeId) ==
    IF nodeId \in DOMAIN g.adjacencyList THEN g.adjacencyList[nodeId] ELSE <<>>

\* Mutant of NearbyRow: the last column of the block is left out.
RECURSIVE NearbyRowOpenEnd(_, _, _, _, _)
NearbyRowOpenEnd(g, gridLat, gridLon, dLon, searchRadius) ==
    IF dLon >= searchRadius THEN <<>>
    ELSE LET key == gridKey(gridLat, gridLon + dLon)
         IN (IF key \in DOMAIN g.spatialGrid THEN g.spatialGrid[key] ELSE <<>>)
            \o NearbyRowOpenEnd(g, gridLat, gridLon, dLon + 1, searchRadius)

\* The cells of one row of the block, dLon from -searchRadius upward.
RECURSIVE NearbyRow(_, _, _, _, _)
NearbyRow(g, gridLat, gridLon, dLon, searchRadius) ==
    IF dLon > searchRadius THEN <<>>
    ELSE LET key == gridKey(gridLat, gridLon + dLon)
         IN (IF key \in DOMAIN g.spatialGrid THEN g.spatialGrid[key] ELSE <<>>)
            \o NearbyRow(g, gridLat, gridLon, dLon + 1, searchRadius)

RECURSIVE NearbyRows(_, _, _, _, _)
NearbyRows(g, gridLat, gridLon, dLat, searchRadius) ==
    IF dLat > searchRadius THEN <<>>
    ELSE NearbyRow(g, gridLat + dLat, gridLon, -searchRadius, searchRadius)
         \o NearbyRows(g, gridLat, gridLon, dLat + 1, searchRadius)

\* A graph without nodes has an empty grid: no key, NaN included, is present.
getNodesNearby(g, lat, lon, searchRadius) ==
    IF g.nodesArray = <<>> THEN <<>>
    ELSE NearbyRows(g, latToGrid(g, lat), lonToGrid(g, lon), -searchRadius, searchRadius)

----------------------------------------------------------------------------
(* nearest-node.ts *)

maxSearchRadius == 5

\* Mutant of GatherLoop: the greatest radius is not queried.
RECURSIVE GatherLoopBelowMax(_, _, _, _)
GatherLoopBelowMax(g, point, searchRadius, candidateNodes) ==
    IF candidateNodes = <<>> /\ searchRadius < maxSearchRadius
    THEN GatherLoopBelowMax(g, point, searchRadius + 1,
                            getNodesNearby(g, point.lat, point.lon, searchRadius))
    ELSE [candidateNodes |-> candidateNodes, searchRadius |-> searchRadius]

\* while (candidateNodes.length === 0 && searchRadius <= maxSearchRadius):
\* the two variables of the loop when it ends
RECURSIVE GatherLoop(_, _, _, _)
GatherLoop(g, point, searchRadius, candidateNodes) ==
    IF candidateNodes = <<>> /\ searchRadius <= maxSearchRadius
    THEN GatherLoop(g, point, searchRadius + 1,
                    getNodesNearby(g, point.lat, point.lon, searchRadius))
    ELSE [candidateNodes |-> candidateNodes, searchRadius |-> searchRadius]

\* The candidates the loop started at searchRadius ends with.
GatherCandidates(g, point, searchRadius) ==
    GatherLoop(g, point, searchRadius, <<>>).candidateNodes

\* Mutant of ScanNearest: a later node at the same distance replaces the best.
RECURSIVE ScanNearestLastWins(_, _, _, _)
ScanNearestLastWins(cands, point, i, nearestNode) ==
    IF i > Len(cands) THEN nearestNode
    ELSE IF haversineDistance(point, cands[i]) <= haversineDistance(point, nearestNode)
         THEN ScanNearestLastWins(cands, point, i + 1, cands[i])
         ELSE ScanNearestLastWins(cands, point, i + 1, nearestNode)

\* Mutant of ScanNearest: the comparison is turned round.
RECURSIVE ScanNearestFarthest(_, _, _, _)
ScanNearestFarthest(cands, point, i, nearestNode) ==
    IF i > Len(cands) THEN nearestNode
    ELSE IF haversineDistance(point, cands[i]) > haversineDistance(point, nearestNode)
         THEN ScanNearestFarthest(cands, point, i + 1, cands[i])
         ELSE ScanNearestFarthest(cands, point, i + 1, nearestNode)

\* The scan for the minimum: a later node replaces the best only when
\* strictly nearer.
RECURSIVE ScanNearest(_, _, _, _)
ScanNearest(cands, point, i, nearestNode) ==
    IF i > Len(cands) THEN nearestNode
    ELSE IF haversineDistance(point, cands[i]) < haversineDistance(point, nearestNode)
         THEN ScanNearest(cands, point, i + 1, cands[i])
         ELSE ScanNearest(cands, point, i + 1, nearestNode)

\* Mutant of NearestAmong: no linear scan when the grid gave no candidate.
NearestAmongNoFallback(candidateNodes, allNodes, point) ==
    IF candidateNodes # <<>>
    THEN ScanNearest(candidateNodes, point, 2, candidateNodes[1])
    ELSE Undefined

\* Lines 33-65: the scan of the candidates, or of all nodes when there are none.
NearestAmong(candidateNodes, allNodes, point) ==
    IF candidateNodes # <<>>
    THEN ScanNearest(candidateNodes, point, 2, candidateNodes[1])
    ELSE ScanNearest(allNodes, point, 2, allNodes[1])

\* Mutant of findNearestNode: the emptiness test is off by one.
findNearestNodeNeedsTwo(g, point) ==
    IF Len(getAllNodes(g)) <= 1 THEN Undefined
    ELSE NearestAmong(GatherCandidates(g, point, 0), getAllNodes(g), point)

findNearestNode(g, point) ==
    IF getAllNodes(g) = <<>> THEN Undefined
    ELSE NearestAmong(GatherCandidates(g, point, 0), getAllNodes(g), point)

----------------------------------------------------------------------------
(* router.ts: aStar *)

\* Mutant of Entry: the entry carries the fCost in both cost fields.
EntryCarriesFCost(nodeId, fCost, g) == [nodeId |-> nodeId, fCost |-> fCost, gCost |-> fCost]

Entry(nodeId, fCost, g) == [nodeId |-> nodeId, fCost |-> fCost, gCost |-> g]

\* openSet.sort((a, b) => a.fCost - b.fCost): a stable sort, entries of equal
\* fCost keep their order.
RECURSIVE InsertByF(_, _)
InsertByF(sorted, e) ==
    IF sorted = <<>> THEN <<e>>
    ELSE IF Head(sorted).fCost > e.fCost THEN <<e>> \o sorted
    ELSE <<Head(sorted)>> \o InsertByF(Tail(sorted), e)

RECURSIVE SortByF(_, _)
SortByF(sorted, rest) ==
    IF rest = <<>> THEN sorted ELSE SortByF(InsertByF(sorted, Head(rest)), Tail(rest))

\* Mutant of sortOpenSet: the open set is left in insertion order.
sortOpenSetUnsorted(open) == open

sortOpenSet(open) == SortByF(<<>>, open)

\* Mutant of shift: the first entry is read and left in the array.
shiftKeepsFirst(sorted) == sorted

\* openSet.shift(): the array without its first entry
shift(sorted) == Tail(sorted)

\* openSet.findIndex((e) => e.nodeId === id), 0 for -1
FindIndex(open, id) ==
    IF \E i \in DOMAIN open : open[i].nodeId = id
    THEN CHOOSE i \in DOMAIN open :
           open[i].nodeId = id /\ \A j \in DOMAIN open : open[j].nodeId = id => i <= j
    ELSE 0

MapSet(m, k, v) == [x \in DOMAIN m \cup {k} |-> IF x = k THEN v ELSE m[x]]

\* Mutant of Relax: a neighbor in the closed set is relaxed like any other.
RelaxIgnoresClosed(g, st, closed, current, goalNode, neighbor) ==
    LET tentativeGCost == current.gCost + neighbor.distance
        better == neighbor.nodeId \notin DOMAIN st.g \/ tentativeGCost < st.g[neighbor.nodeId]
        linked == [st EXCEPT !.par = MapSet(st.par, neighbor.nodeId, current.nodeId),
                             !.g = MapSet(st.g, neighbor.nodeId, tentativeGCost)]
        neighborNode == getNode(g, neighbor.nodeId)
        fCost == tentativeGCost + haversineDistance(neighborNode, goalNode)
        existingIndex == FindIndex(st.open, neighbor.nodeId)
    IN IF ~better THEN st
       ELSE IF neighborNode = Undefined THEN linked
       ELSE IF existingIndex = 0
            THEN [linked EXCEPT !.open = Append(st.open, Entry(neighbor.nodeId, fCost, tentativeGCost))]
       ELSE IF fCost < st.open[existingIndex].fCost
            THEN [linked EXCEPT !.open[existingIndex] = Entry(neighbor.nodeId, fCost, tentativeGCost)]
       ELSE linked

\* The body of `for (const neighbor of neighbors)` for one neighbor, on the
\* working state st = [open, g, par].
Relax(g, st, closed, current, goalNode, neighbor) ==
    LET tentativeGCost == current.gCost + neighbor.distance
        better == neighbor.nodeId \notin DOMAIN st.g \/ tentativeGCost < st.g[neighbor.nodeId]
        linked == [st EXCEPT !.par = MapSet(st.par, neighbor.nodeId, current.nodeId),
                             !.g = MapSet(st.g, neighbor.nodeId, tentativeGCost)]
        neighborNode == getNode(g, neighbor.nodeId)
        fCost == tentativeGCost + haversineDistance(neighborNode, goalNode)
        existingIndex == FindIndex(st.open, neighbor.nodeId)
    IN IF neighbor.nodeId \in closed THEN st
       ELSE IF ~better THEN st
       ELSE IF neighborNode = Undefined THEN linked
       ELSE IF existingIndex = 0
            THEN [linked EXCEPT !.open = Append(st.open, Entry(neighbor.nodeId, fCost, tentativeGCost))]
       ELSE IF fCost < st.open[existingIndex].fCost
            THEN [linked EXCEPT !.open[existingIndex] = Entry(neighbor.nodeId, fCost, tentativeGCost)]
       ELSE linked

RECURSIVE RelaxAll(_, _, _, _, _, _, _)
RelaxAll(g, st, closed, current, goalNode, neighbors, i) ==
    IF i > Len(neighbors) THEN st
    ELSE RelaxAll(g, Relax(g, st, closed, current, goalNode, neighbors[i]),
                  closed, current, goalNode, neighbors, i + 1)

\* Mutant of Expand: the loop over the neighbors starts at the second one.
ExpandSkipsFirst(g, st, closed, current, goalNode) ==
    RelaxAll(g, st, closed, current, goalNode, getNeighbors(g, current.nodeId), 2)

\* for (const neighbor of graph.getNeighbors(current.nodeId)) { ... }
Expand(g, st, closed, current, goalNode) ==
    RelaxAll(g, st, closed, current, goalNode, getNeighbors(g, current.nodeId), 1)

\* Mutant of reconstructPath: the ids are pushed, not unshifted.
RECURSIVE reconstructPathGoalFirst(_, _)
reconstructPathGoalFirst(par, nodeId) ==
    IF nodeId \in DOMAIN par THEN <<nodeId>> \o reconstructPathGoalFirst(par, par[nodeId])
    ELSE <<nodeId>>

\* while (nodeId !== undefined) { path.unshift(nodeId); nodeId = parent.get(nodeId) }
RECURSIVE reconstructPath(_, _)
reconstructPath(par, nodeId) ==
    IF nodeId \in DOMAIN par THEN Append(reconstructPath(par, par[nodeId]), nodeId)
    ELSE <<nodeId>>

\* neighbors.find((n) => n.nodeId === nextNodeId): its distance, 0 when absent
EdgeDistance(neighbors, nextNodeId) ==
    LET i == FindIndex(neighbors, nextNodeId)
    IN IF i = 0 THEN 0 ELSE neighbors[i].distance

RECURSIVE SumEdges(_, _, _)
SumEdges(g, path, i) ==
    IF i > Len(path) - 1 THEN 0
    ELSE EdgeDistance(getNeighbors(g, path[i]), path[i + 1]) + SumEdges(g, path, i + 1)

\* Mutant of totalDistance: the sum starts at the second pair.
totalDistanceFromSecond(g, path) == SumEdges(g, path, 2)

totalDistance(g, path) == SumEdges(g, path, 1)

AStarResult(path, distance) == [path |-> path, distance |-> distance]

----------------------------------------------------------------------------
(* router.ts: findRoute, and index.ts *)

NoGraph == [built |-> FALSE]
NoPoint == [none |-> TRUE]
NoCall == [api |-> "none"]
NoResult == [api |-> "none"]

\* The outcome of a completed call c: what it returned or the error it threw,
\* with how many times it entered aStar and what aStar returned to it.
NoSearch == [none |-> TRUE]
Ok(c, value, n, a) ==
    [api |-> c.api, args |-> c.args, outcome |-> "ok", value |-> value,
     searches |-> n, astar |-> a]
Throw(c, error, n, a) ==
    [api |-> c.api, args |-> c.args, outcome |-> "error", error |-> error,
     searches |-> n, astar |-> a]

\* Mutant of NeedsGraph: every call constructs a Graph.
NeedsGraphAlways == TRUE

\* if (!graphInstance)
NeedsGraph == ~graphInstance.built

\* Mutant of getGraph: a later call empties the spatial grid of the instance.
getGraphClearsGrid ==
    IF NeedsGraph THEN Graph(nodesData, edgesData)
    ELSE [graphInstance EXCEPT !.spatialGrid = EmptyMap]

\* getGraph(): if (!graphInstance) graphInstance = new Graph()
getGraph == IF NeedsGraph THEN Graph(nodesData, edgesData) ELSE graphInstance

\* Mutant of Coordinates: the pair is [lat, lon].
CoordinatesLatLon(g, path) ==
    [i \in DOMAIN path |-> <<getNode(g, path[i]).lat, getNode(g, path[i]).lon>>]

\* aStarResult.path.map(nodeId => ...): the coordinate list, or the id that
\* has no node.
Coordinates(g, path) == [i \in DOMAIN path |-> <<getNode(g, path[i]).lon, getNode(g, path[i]).lat>>]
MissingIds(g, path) == {i \in DOMAIN path : getNode(g, path[i]) = Undefined}

\* Mutant of RouteResult: an id without a node is left out of the list.
RouteResultPartial(g, aStarResult) ==
    LET known == SelectSeq(aStarResult.path, LAMBDA id : getNode(g, id) # Undefined)
    IN IF Len(aStarResult.path) = 0 THEN [outcome |-> "error", error |-> "No route found"]
       ELSE [outcome |-> "ok",
             value |-> [coordinates |-> Coordinates(g, known),
                        distance |-> aStarResult.distance,
                        waypoints |-> Len(aStarResult.path)]]

\* findRoute from line 54 on: what the call returns once aStar has returned.
RouteResult(g, aStarResult) ==
    IF Len(aStarResult.path) = 0 THEN [outcome |-> "error", error |-> "No route found"]
    ELSE IF MissingIds(g, aStarResult.path) # {}
         THEN [outcome |-> "error", error |-> "Node not found in graph"]
    ELSE [outcome |-> "ok",
          value |-> [coordinates |-> Coordinates(g, aStarResult.path),
                     distance |-> aStarResult.distance,
                     waypoints |-> Len(aStarResult.path)]]

\* Mutant of SameNode: the same-node shortcut is never taken.
SameNodeNever(startNode, endNode) == FALSE

\* if (startNode.id === endNode.id)
SameNode(startNode, endNode) == startNode.id = endNode.id

\* The trivial route of lines 40-50.
TrivialRoute(startNode) ==
    [outcome |-> "ok",
     value |-> [coordinates |-> <<<<startNode.lon, startNode.lat>>>>, distance |-> 0, waypoints |-> 1]]

\* Mutant of Deliver: findDistance returns the wrong field of the result.
DeliverWaypoints(c, r, n, a) ==
    IF r.outcome = "error" THEN Throw(c, r.error, n, a)
    ELSE IF c.api = "findDistance" THEN Ok(c, r.value.waypoints, n, a)
    ELSE Ok(c, r.value, n, a)

\* What the public call hands back for what router.findRoute did:
\* findRoute passes it on, findDistance returns result.distance.
Deliver(c, r, n, a) ==
    IF r.outcome = "error" THEN Throw(c, r.error, n, a)
    ELSE IF c.api = "findDistance" THEN Ok(c, r.value.distance, n, a)
    ELSE Ok(c, r.value, n, a)

\* What the call in progress returns once aStar has returned.
Complete(g, c, aStarResult, n) ==
    IF c.api = "aStar" THEN Ok(c, aStarResult, n, aStarResult)
    ELSE Deliver(c, RouteResult(g, aStarResult), n, aStarResult)

----------------------------------------------------------------------------
(* The calls *)

Call(api, args, startId, goalId) ==
    [api |-> api, args |-> args, startId |-> startId, goalId |-> goalId]

\* A call ends: its outcome is recorded and the search's locals are gone.
Finish(r) ==
    /\ pc' = "idle"
    /\ call' = NoCall
    /\ openSet' = <<>>
    /\ closedSet' = {}
    /\ gCost' = EmptyMap
    /\ parent' = EmptyMap
    /\ searches' = r.searches
    /\ result' = r
    /\ lastRoute' = IF r.api = "findRoute" THEN r
                    ELSE IF r.api = "findDistance" THEN lastRoute
                    ELSE NoResult

\* Mutant of EnterAStar: the goal is not looked up before the search starts.
EnterAStarNoGoalCheck(g, c) ==
    /\ pc' = "astar"
    /\ call' = c
    /\ openSet' = <<Entry(c.startId, 0, 0)>>
    /\ closedSet' = {}
    /\ gCost' = MapSet(EmptyMap, c.startId, 0)
    /\ parent' = EmptyMap
    /\ searches' = 1
    /\ result' = NoResult
    /\ lastRoute' = IF c.api = "aStar" THEN NoResult ELSE lastRoute

\* aStar, lines 86-102: the goal check and the initial working state.
EnterAStar(g, c) ==
    IF getNode(g, c.goalId) = Undefined
    THEN Finish(Throw(c, "Goal node not found", 1, NoSearch))
    ELSE /\ pc' = "astar"
         /\ call' = c
         /\ openSet' = <<Entry(c.startId, 0, 0)>>
         /\ closedSet' = {}
         /\ gCost' = MapSet(EmptyMap, c.startId, 0)
         /\ parent' = EmptyMap
         /\ searches' = 1
         /\ result' = NoResult
         /\ lastRoute' = IF c.api = "aStar" THEN NoResult ELSE lastRoute

\* index.ts getGraph() as the first step of every call
UseGraph ==
    /\ graphInstance' = getGraph
    /\ constructed' = IF NeedsGraph THEN constructed + 1 ELSE constructed
    /\ UNCHANGED <<nodesData, edgesData>>
    /\ UNCHANGED queueVars

\* router.findRoute up to the call of aStar (lines 33-52), for the public
\* call api(origin, destination).
Route(api, origin, destination) ==
    /\ pc = "idle"
    /\ UseGraph
    /\ \E g \in {getGraph} :
       \E startNode \in {findNearestNode(g, origin)} :
       \E endNode \in {findNearestNode(g, destination)} :
         LET c == [api |-> api, args |-> [origin |-> origin, destination |-> destination]]
         IN IF startNode = Undefined \/ endNode = Undefined
            THEN Finish(Throw(c, "Could not find nearest nodes", 0, NoSearch))
            ELSE IF SameNode(startNode, endNode)
            THEN Finish(Deliver(c, TrivialRoute(startNode), 0, NoSearch))
            ELSE EnterAStar(g, Call(api, c.args, startNode.id, endNode.id))

FindRoute(origin, destination) == Route("findRoute", origin, destination)

\* findDistance: findRoute(origin, destination).distance
FindDistance(origin, destination) == Route("findDistance", origin, destination)

\* aStar called on its own
AStar(startId, goalId) ==
    /\ pc = "idle"
    /\ UseGraph
    /\ EnterAStar(getGraph, Call("aStar", [startId |-> startId, goalId |-> goalId], startId, goalId))

\* findNearestNode called on its own
FindNearestNode(point) ==
    /\ pc = "idle"
    /\ UseGraph
    /\ Finish(Ok([api |-> "findNearestNode", args |-> [point |-> point]],
                 findNearestNode(getGraph, point), 0, NoSearch))

\* graph.getNodesNearby called on its own
GetNodesNearby(lat, lon, searchRadius) ==
    /\ pc = "idle"
    /\ UseGraph
    /\ Finish(Ok([api |-> "getNodesNearby",
                  args |-> [lat |-> lat, lon |-> lon, searchRadius |-> searchRadius]],
                 getNodesNearby(getGraph, lat, lon, searchRadius), 0, NoSearch))

\* graph.getNeighbors called on its own
GetNeighbors(nodeId) ==
    /\ pc = "idle"
    /\ UseGraph
    /\ Finish(Ok([api |-> "getNeighbors", args |-> [nodeId |-> nodeId]],
                 getNeighbors(getGraph, nodeId), 0, NoSearch))

\* One pass of `while (openSet.length > 0)`.
AStarIterate ==
    /\ pc = "astar"
    /\ openSet # <<>>
    /\ UNCHANGED <<nodesData, edgesData, graphInstance, constructed>>
    /\ UNCHANGED queueVars
    /\ LET g == graphInstance
           sorted == sortOpenSet(openSet)
           current == Head(sorted)
           goalNode == getNode(g, call.goalId)
           path == reconstructPath(parent, call.goalId)
           closed == closedSet \cup {current.nodeId}
           st == Expand(g, [open |-> shift(sorted), g |-> gCost, par |-> parent],
                        closed, current, goalNode)
       IN IF current.nodeId = call.goalId
          THEN Finish(Complete(g, call, AStarResult(path, totalDistance(g, path)), searches))
          ELSE /\ openSet' = st.open
               /\ closedSet' = closed
               /\ gCost' = st.g
               /\ parent' = st.par
               /\ UNCHANGED <<pc, call, searches, result, lastRoute>>

\* The loop ends with the open set empty: no path.
AStarExhausted ==
    /\ pc = "astar"
    /\ openSet = <<>>
    /\ UNCHANGED <<nodesData, edgesData, graphInstance, constructed>>
    /\ UNCHANGED queueVars
    /\ Finish(Complete(graphInstance, call, AStarResult(<<>>, 0), searches))

----------------------------------------------------------------------------
(* Input data and the specifications *)

Point(lat, lon) == [lat |-> lat, lon |-> lon]

\* Node tuples [id, lon, lat] with ids 1..n in order, at coordinates of `coords`.
NodeLists(coords, n) ==
    {[i \in 1..n |-> Arr(<<i, c[i].lon, c[i].lat>>)] : c \in [1..n -> coords]}

\* Edge lists of at most m tuples [from, to, length_nm].
EdgeLists(tuples, m) == UNION {[1..k -> tuples] : k \in 0..m}

Idle ==
    /\ graphInstance = NoGraph
    /\ constructed = 0
    /\ pc = "idle"
    /\ call = NoCall
    /\ openSet = <<>>
    /\ closedSet = {}
    /\ gCost = EmptyMap
    /\ parent = EmptyMap
    /\ searches = 0
    /\ result = NoResult
    /\ lastRoute = NoResult
    /\ heap = <<>>
    /\ nodeIdToIndex = EmptyMap
    /\ queueOp = [op |-> "none"]
    /\ latest = EmptyMap

(* Resolver: many node placements, no edges. *)
NearCoords == {Point(la, lo) : la \in {0, 60}, lo \in {-150, -120, -60}}
NearQueries ==
    NearCoords \cup {Point(0, -90), Point(0, 60), Point(60, -90), Point(60, 0), Point(0, 30)}

InitNearest ==
    /\ nodesData \in UNION {NodeLists(NearCoords, n) : n \in 0..MaxNodes}
    /\ edgesData = <<>>
    /\ Idle

NextNearest ==
    \/ \E p \in NearQueries : FindNearestNode(p)
    \/ \E p \in NearQueries : FindRoute(p, p)

SpecNearest == InitNearest /\ [][NextNearest]_vars

(* Search: nodes 1..n on the equator, many edge lists; id MaxNodes + 1 is
   never a node. *)
SearchCoords == <<Point(0, 0), Point(0, 30), Point(0, 60), Point(0, 90)>>
SearchIds == 1..(MaxNodes + 1)
SearchWeights == {0, 2000, 5000}
SearchTuples ==
    {Arr(<<1, 2, 0>>), Arr(<<1, 2, 2000>>), Arr(<<1, 2, 5000>>), Arr(<<2, 1, 2000>>),
     Arr(<<2, 3, 0>>), Arr(<<2, 3, 2000>>), Arr(<<1, 3, 2000>>), Arr(<<1, 3, 5000>>),
     Arr(<<1, 1, 2000>>), Arr(<<3, MaxNodes + 1, 2000>>)}

\* The first n entries of a placement, as node tuples with ids 1..n.
Placed(coords, n) == [i \in 1..n |-> Arr(<<i, coords[i].lon, coords[i].lat>>)]

\* One more graph: the cheapest way from 1 to 4 runs 1-3-2-4 (9100), the
\* heuristic never exceeds the remaining network distance to node 4, and the
\* edge 3-2 is shorter than the great circle between its ends.
DetourNodes ==
    <<Arr(<<1, 0, 0>>), Arr(<<2, 30, 0>>), Arr(<<3, -150, 0>>), Arr(<<4, 60, 0>>)>>
DetourEdges ==
    <<Arr(<<1, 2, 7200>>), Arr(<<1, 3, 0>>), Arr(<<3, 2, 7100>>), Arr(<<2, 4, 2000>>)>>

\* And one where nodes 2 and 3 share their coordinates: once node 1 is
\* expanded they are in the open set with the same fCost, behind node 4.
TieNodes ==
    <<Arr(<<1, 0, 0>>), Arr(<<2, 30, 0>>), Arr(<<3, 30, 0>>), Arr(<<4, 60, 0>>)>>
TieEdges ==
    <<Arr(<<1, 4, 5000>>), Arr(<<1, 2, 2000>>), Arr(<<1, 3, 2000>>), Arr(<<3, 4, 2000>>)>>

InitSearch ==
    /\ \/ /\ nodesData \in {Placed(SearchCoords, n) : n \in 2..MaxNodes}
          /\ edgesData \in EdgeLists(SearchTuples, MaxEdges)
       \/ /\ nodesData = DetourNodes
          /\ edgesData = DetourEdges
       \/ /\ nodesData = TieNodes
          /\ edgesData = TieEdges
    /\ Idle

NextSearch ==
    \/ \E s \in SearchIds, t \in SearchIds : AStar(s, t)
    \/ AStarIterate
    \/ AStarExhausted

SpecSearch == InitSearch /\ [][NextSearch]_vars

(* Search loop: edge lists with zero weights, self-loops, parallel edges and
   cycles. The loop is straight-line code: an iteration that can run does
   run. *)
LoopTuples ==
    {Arr(<<1, 2, 0>>), Arr(<<1, 2, 2000>>), Arr(<<2, 3, 0>>), Arr(<<1, 1, 0>>)}

InitLoop ==
    /\ \/ /\ nodesData = Placed(SearchCoords, MaxNodes)
          /\ edgesData \in EdgeLists(LoopTuples, MaxEdges)
       \/ /\ nodesData = DetourNodes
          /\ edgesData = DetourEdges
       \/ /\ nodesData = TieNodes
          /\ edgesData = TieEdges
    /\ Idle

SpecSearchFair ==
    /\ InitLoop /\ [][NextSearch]_vars
    /\ WF_vars(AStarIterate) /\ WF_vars(AStarExhausted)

(* Router and public entry points. *)
RoutePlacements ==
    {<<Point(0, 0), Point(0, 30), Point(0, 60), Point(60, 30)>>,
     <<Point(0, 60), Point(0, 0), Point(60, 30), Point(0, 30)>>}
RouteQueries == {Point(0, 0), Point(0, 60), Point(60, 30)}
RouteTuples == {Arr(<<e[1], e[2], 2000>>) : e \in {<<1, 2>>, <<2, 3>>, <<1, 3>>}}

Init ==
    /\ nodesData \in {Placed(c, n) : c \in RoutePlacements, n \in 0..MaxNodes}
    /\ edgesData \in EdgeLists(RouteTuples, MaxEdges)
    /\ Idle

Next ==
    \/ \E o \in RouteQueries, d \in RouteQueries : FindRoute(o, d)
    \/ \E o \in RouteQueries, d \in RouteQueries : FindDistance(o, d)
    \/ AStarIterate
    \/ AStarExhausted

Spec == Init /\ [][Next]_vars

(* Graph construction and lookups: input collections with malformed
   entries among the well-formed ones, and one graph of 21 nodes, whose grid
   has resolution 2. *)
GraphCoords == {Point(0, 0), Point(0, 30), Point(60, 0), Point(60, 60)}

\* The entries position i of a node collection can hold.
NodeEntries(i) ==
    {Arr(<<i, c.lon, c.lat>>) : c \in GraphCoords} \cup {NotArr, Arr(<<i, 30>>)}

GraphNodeLists ==
    UNION {{nd \in [1..n -> UNION {NodeEntries(i) : i \in 1..n}] :
                \A i \in 1..n : nd[i] \in NodeEntries(i)} : n \in 0..MaxNodes}

GraphTuples ==
    {Arr(<<1, 2, 2000>>), Arr(<<2, 1, 2000>>), Arr(<<1, 2, 5000>>), Arr(<<1, 1, 2000>>),
     Arr(<<2, 3, 0>>), Arr(<<3, MaxNodes + 1, 2000>>), Arr(<<1, 2, 0, 7>>),
     NotArr, Arr(<<1, 2>>)}

LatticeNodes ==
    [i \in 1..21 |-> Arr(<<i, 30 * ((i - 1) % 7), 30 * ((i - 1) \div 7)>>)]

GraphQueries ==
    {Point(0, 0), Point(60, 30), Point(30, 90), Point(0, -90), Point(60, 180)}
GraphRadii == 0..2

InitGraph ==
    /\ \/ /\ nodesData \in GraphNodeLists
          /\ edgesData = <<>>
       \/ /\ nodesData = Placed(SearchCoords, MaxNodes)
          /\ edgesData \in EdgeLists(GraphTuples, MaxEdges)
       \/ /\ nodesData = LatticeNodes
          /\ edgesData = <<>>
    /\ Idle

NextGraph ==
    \/ \E p \in GraphQueries, r \in GraphRadii : GetNodesNearby(p.lat, p.lon, r)
    \/ \E id \in SearchIds : GetNeighbors(id)

SpecGraph == InitGraph /\ [][NextGraph]_vars

----------------------------------------------------------------------------
(* router.ts: class PriorityQueue *)

MaxQueue == 4

MapDelete(m, k) == [x \in DOMAIN m \ {k} |-> m[x]]

\* The two fields of a PriorityQueue object.
Queue(h, m) == [heap |-> h, nodeIdToIndex |-> m]

\* Mutant of swap: the index map is not brought up to date.
swapHeapOnly(q, i, j) ==
    Queue([q.heap EXCEPT ![i + 1] = q.heap[j + 1], ![j + 1] = q.heap[i + 1]],
          q.nodeIdToIndex)

swap(q, i, j) ==
    LET h == [q.heap EXCEPT ![i + 1] = q.heap[j + 1], ![j + 1] = q.heap[i + 1]]
    IN Queue(h, MapSet(MapSet(q.nodeIdToIndex, h[i + 1].nodeId, i), h[j + 1].nodeId, j))

RECURSIVE bubbleUp(_, _)
bubbleUp(q, index) ==
    IF index <= 0 THEN q
    ELSE LET parentIndex == (index - 1) \div 2
         IN IF q.heap[index + 1].fCost >= q.heap[parentIndex + 1].fCost THEN q
            ELSE bubbleUp(swap(q, index, parentIndex), parentIndex)

\* Mutant of bubbleDown: the right child is never looked at.
RECURSIVE bubbleDownLeftOnly(_, _)
bubbleDownLeftOnly(q, index) ==
    LET leftChild == 2 * index + 1
    IN IF leftChild < Len(q.heap) /\ q.heap[leftChild + 1].fCost < q.heap[index + 1].fCost
       THEN bubbleDownLeftOnly(swap(q, index, leftChild), leftChild)
       ELSE q

RECURSIVE bubbleDown(_, _)
bubbleDown(q, index) ==
    LET leftChild == 2 * index + 1
        rightChild == 2 * index + 2
        first == IF leftChild < Len(q.heap)
                    /\ q.heap[leftChild + 1].fCost < q.heap[index + 1].fCost
                 THEN leftChild ELSE index
        smallest == IF rightChild < Len(q.heap)
                       /\ q.heap[rightChild + 1].fCost < q.heap[first + 1].fCost
                    THEN rightChild ELSE first
    IN IF smallest = index THEN q
       ELSE bubbleDown(swap(q, index, smallest), smallest)

has(q, nodeId) == nodeId \in DOMAIN q.nodeIdToIndex
isEmpty(q) == Len(q.heap) = 0
peek(q) == IF q.heap = <<>> THEN Undefined ELSE q.heap[1]

\* Mutant of update: an absent node id is reported as updated.
updateReturnsTrue(q, nodeId, newFCost, newGCost) ==
    IF nodeId \notin DOMAIN q.nodeIdToIndex THEN [queue |-> q, ret |-> TRUE]
    ELSE LET index == q.nodeIdToIndex[nodeId]
             oldFCost == q.heap[index + 1].fCost
             set == Queue([q.heap EXCEPT ![index + 1].fCost = newFCost,
                                         ![index + 1].gCost = newGCost],
                          q.nodeIdToIndex)
         IN [queue |-> IF newFCost < oldFCost THEN bubbleUp(set, index)
                       ELSE IF newFCost > oldFCost THEN bubbleDown(set, index)
                       ELSE set,
             ret |-> TRUE]

\* update(nodeId, newFCost, newGCost): the queue afterwards and the value returned
update(q, nodeId, newFCost, newGCost) ==
    IF nodeId \notin DOMAIN q.nodeIdToIndex THEN [queue |-> q, ret |-> FALSE]
    ELSE LET index == q.nodeIdToIndex[nodeId]
             oldFCost == q.heap[index + 1].fCost
             set == Queue([q.heap EXCEPT ![index + 1].fCost = newFCost,
                                         ![index + 1].gCost = newGCost],
                          q.nodeIdToIndex)
         IN [queue |-> IF newFCost < oldFCost THEN bubbleUp(set, index)
                       ELSE IF newFCost > oldFCost THEN bubbleDown(set, index)
                       ELSE set,
             ret |-> TRUE]

\* Mutant of push: the entry is appended whether or not its id is present.
pushAlwaysAppends(q, entry) ==
    bubbleUp(Queue(Append(q.heap, entry),
                   MapSet(q.nodeIdToIndex, entry.nodeId, Len(q.heap))),
             Len(q.heap))

\* push(entry): the queue afterwards
push(q, entry) ==
    IF has(q, entry.nodeId)
    THEN update(q, entry.nodeId, entry.fCost, entry.gCost).queue
    ELSE bubbleUp(Queue(Append(q.heap, entry),
                        MapSet(q.nodeIdToIndex, entry.nodeId, Len(q.heap))),
                  Len(q.heap))

\* pop(): the queue afterwards and the value returned
pop(q) ==
    IF Len(q.heap) = 0 THEN [queue |-> q, ret |-> Undefined]
    ELSE IF Len(q.heap) = 1
    THEN [queue |-> Queue(<<>>, MapDelete(q.nodeIdToIndex, q.heap[1].nodeId)),
          ret |-> q.heap[1]]
    ELSE LET root == q.heap[1]
             last == q.heap[Len(q.heap)]
             h == [SubSeq(q.heap, 1, Len(q.heap) - 1) EXCEPT ![1] = last]
             m == MapDelete(MapSet(q.nodeIdToIndex, last.nodeId, 0), root.nodeId)
         IN [queue |-> bubbleDown(Queue(h, m), 0), ret |-> root]

\* The queue object of the state, and a call's effect on it.
ThisQueue == Queue(heap, nodeIdToIndex)

QueueCall(op, nodeId, q, ret) ==
    /\ heap' = q.heap
    /\ nodeIdToIndex' = q.nodeIdToIndex
    /\ queueOp' = [op |-> op, ret |-> ret,
                   present |-> has(ThisQueue, nodeId),
                   changed |-> q # ThisQueue]
    /\ UNCHANGED <<nodesData, edgesData, graphInstance, constructed, pc, call,
                   openSet, closedSet, gCost, parent, searches, result, lastRoute>>

Costs(entry) == [fCost |-> entry.fCost, gCost |-> entry.gCost]

Push(entry) ==
    /\ QueueCall("push", entry.nodeId, push(ThisQueue, entry), Undefined)
    /\ latest' = MapSet(latest, entry.nodeId, Costs(entry))

Pop ==
    \E r \in {pop(ThisQueue)} :
        /\ QueueCall("pop", 0, r.queue,
                     IF r.ret = Undefined THEN Undefined ELSE [entry |-> TRUE])
        /\ latest' = IF r.ret = Undefined THEN latest ELSE MapDelete(latest, r.ret.nodeId)

Update(nodeId, newFCost, newGCost) ==
    \E r \in {update(ThisQueue, nodeId, newFCost, newGCost)} :
        /\ QueueCall("update", nodeId, r.queue, r.ret)
        /\ latest' = IF nodeId \in DOMAIN latest
                     THEN MapSet(latest, nodeId, [fCost |-> newFCost, gCost |-> newGCost])
                     ELSE latest

(* Priority queue on its own: node ids 1..MaxQueue, three cost pairs. *)
QueueIds == 1..MaxQueue
QueueCosts == {<<1, 0>>, <<2, 1>>, <<3, 0>>}

InitQueue ==
    /\ nodesData = <<>>
    /\ edgesData = <<>>
    /\ Idle

NextQueue ==
    \/ \E id \in QueueIds, c \in QueueCosts : Push(Entry(id, c[1], c[2]))
    \/ Pop
    \/ \E id \in QueueIds, c \in QueueCosts : Update(id, c[1], c[2])

SpecQueue == InitQueue /\ [][NextQueue]_vars

----------------------------------------------------------------------------
(* Reference notions for the properties *)

Elements(seq) == {seq[i] : i \in DOMAIN seq}

IsNode(g, n) == \E i \in DOMAIN g.nodesArray : g.nodesArray[i] = n

\* The weights of the adjacency entries from u to v.
EdgeWeights(g, u, v) ==
    LET nb == getNeighbors(g, u)
    IN {nb[i].distance : i \in {j \in DOMAIN nb : nb[j].nodeId = v}}

\* Every id the adjacency structure or the node table mentions.
AdjIds(g) == DOMAIN g.nodes \cup DOMAIN g.adjacencyList

\* Rounds of relaxation over the ids of `ids`; -1 stands for "not reached".
RECURSIVE Settle(_, _, _, _)
Settle(g, ids, d, k) ==
    IF k = 0 THEN d
    ELSE Settle(g, ids,
                [v \in ids |->
                    LET from == {u \in ids : d[u] >= 0}
                        c == (IF d[v] >= 0 THEN {d[v]} ELSE {})
                             \cup UNION {{d[u] + w : w \in EdgeWeights(g, u, v)} : u \in from}
                    IN IF c = {} THEN -1 ELSE SetMin(c)],
                k - 1)

\* The least total weight of a path from s to t whose nodes after s all lie
\* in ids; -1 when there is none.
LeastWeight(g, s, t, ids) ==
    LET all == ids \cup {s, t}
    IN IF t \notin ids \cup {s} THEN -1
       ELSE Settle(g, all \ ({t} \ (ids \cup {s})), [v \in all |-> IF v = s THEN 0 ELSE -1],
                   Cardinality(all))[t]

\* The heuristic never exceeds the least network distance to the goal.
Admissible(g, goalId) ==
    \A n \in DOMAIN g.nodes :
        LET w == LeastWeight(g, n, goalId, AdjIds(g))
        IN w >= 0 => haversineDistance(g.nodes[n], g.nodes[goalId]) <= w

\* The sums of adjacency weights along path from position i on, one entry
\* for each consecutive pair.
RECURSIVE PathSums(_, _, _)
PathSums(g, path, i) ==
    IF i >= Len(path) THEN {0}
    ELSE UNION {{w + r : r \in PathSums(g, path, i + 1)} :
                   w \in EdgeWeights(g, path[i], path[i + 1])}

Public(r) == r.api \in {"findRoute", "findDistance"}
Searched(r) == r.api \in {"findRoute", "findDistance", "aStar"} /\ r.astar # NoSearch

\* The node ids a completed call searched between.
StartOf(r) ==
    IF r.api = "aStar" THEN r.args.startId
    ELSE findNearestNode(graphInstance, r.args.origin).id
GoalOf(r) ==
    IF r.api = "aStar" THEN r.args.goalId
    ELSE findNearestNode(graphInstance, r.args.destination).id

----------------------------------------------------------------------------
(* Properties *)

\* C1: whenever aStar returns a non-empty path on a graph whose heuristic is
\* admissible for the goal, the returned distance is the least total weight
\* of a start-to-goal path of the adjacency structure.
C1_ReturnsLeastDistance ==
    (result.api = "aStar" /\ result.outcome = "ok" /\ result.value.path # <<>>
        /\ Admissible(graphInstance, result.args.goalId))
    => result.value.distance
         = LeastWeight(graphInstance, result.args.startId, result.args.goalId,
                       AdjIds(graphInstance))

ReachAdjacency(g, s, t) == LeastWeight(g, s, t, AdjIds(g)) >= 0
ReachNodes(g, s, t) == LeastWeight(g, s, t, DOMAIN g.nodes) >= 0

HasNodes == graphInstance.built /\ graphInstance.nodesArray # <<>>
NoRoute(r) == r.outcome = "error" /\ r.error = "No route found"

\* aStar returns the empty path (with distance 0) exactly when Reach fails,
\* and only then does a public call whose endpoints resolved to different
\* nodes throw 'No route found'.
NoRouteExactly(Reach(_, _, _)) ==
    /\ (pc = "astar" /\ openSet = <<>>)
          => ~Reach(graphInstance, call.startId, call.goalId)
    /\ Searched(result)
          => /\ (result.astar.path = <<>>)
                   <=> ~Reach(graphInstance, StartOf(result), GoalOf(result))
             /\ result.astar.path = <<>> => result.astar.distance = 0
    /\ (Public(result) /\ HasNodes)
          => (NoRoute(result)
                <=> /\ StartOf(result) # GoalOf(result)
                    /\ ~Reach(graphInstance, StartOf(result), GoalOf(result)))

\* C3 as stated: unreachable through the adjacency structure.
C3_NoRouteIffUnreachable == NoRouteExactly(ReachAdjacency)

\* C3 amended: unreachable through adjacency entries whose targets have a
\* node in the node table.
C3_NoRouteIffUnreachableViaNodes == NoRouteExactly(ReachNodes)

C3_Witness ==
    /\ Public(result) /\ NoRoute(result)
    /\ result.searches = 1 /\ result.astar.path = <<>>

\* C4: when origin and destination resolve to the same node the call returns
\* that node's single coordinate, distance 0 and waypoints 1 without
\* entering aStar (findDistance returns 0).
C4_SameNodeShortCircuit ==
    /\ (pc = "astar" /\ call.api # "aStar") => call.startId # call.goalId
    /\ (Public(result) /\ HasNodes /\ StartOf(result) = GoalOf(result))
          => LET n == findNearestNode(graphInstance, result.args.origin)
             IN /\ result.outcome = "ok"
                /\ result.searches = 0
                /\ result.astar = NoSearch
                /\ IF result.api = "findDistance" THEN result.value = 0
                   ELSE result.value = [coordinates |-> <<<<n.lon, n.lat>>>>,
                                        distance |-> 0, waypoints |-> 1]

C4_Witness ==
    /\ Public(result) /\ result.outcome = "ok" /\ result.searches = 0
    /\ result.args.origin # result.args.destination

\* C5: a public call fails with 'Could not find nearest nodes' exactly when
\* the graph has no nodes, and then no search was started.
C5_EmptyGraphError ==
    /\ pc = "astar" => HasNodes
    /\ Public(result)
          => /\ (result.outcome = "error" /\ result.error = "Could not find nearest nodes")
                   <=> graphInstance.nodesArray = <<>>
             /\ graphInstance.nodesArray = <<>>
                   => result.searches = 0 /\ result.astar = NoSearch

C5_Witness ==
    /\ Public(result) /\ result.outcome = "error"
    /\ result.error = "Could not find nearest nodes"

\* C6: a successful findRoute has waypoints = number of coordinates = length
\* of the node-id path >= 1, the i-th coordinate is [lon, lat] of the i-th
\* path node, the first is the node resolved for the origin and the last the
\* node resolved for the destination.
C6_RouteShape ==
    (result.api = "findRoute" /\ result.outcome = "ok")
    => LET v == result.value
           g == graphInstance
           first == findNearestNode(g, result.args.origin)
           last == findNearestNode(g, result.args.destination)
           path == IF result.astar = NoSearch THEN <<first.id>> ELSE result.astar.path
       IN /\ v.waypoints = Len(v.coordinates)
          /\ v.waypoints >= 1
          /\ v.waypoints = Len(path)
          /\ \A i \in DOMAIN path :
                v.coordinates[i] = <<g.nodes[path[i]].lon, g.nodes[path[i]].lat>>
          /\ path[1] = first.id
          /\ path[Len(path)] = last.id
          /\ v.coordinates[1] = <<first.lon, first.lat>>
          /\ v.coordinates[Len(v.coordinates)] = <<last.lon, last.lat>>

C6_Witness ==
    /\ result.api = "findRoute" /\ result.outcome = "ok"
    /\ result.value.waypoints = 3

\* C7: findNearestNode returns undefined exactly when the graph has no
\* nodes, and otherwise a node of the graph.
C7_NearestDefined ==
    result.api = "findNearestNode"
    => /\ (result.value = Undefined) <=> (graphInstance.nodesArray = <<>>)
       /\ graphInstance.nodesArray # <<>> => IsNode(graphInstance, result.value)

\* The linear-scan fallback was taken.
C7_Witness ==
    /\ result.api = "findNearestNode"
    /\ graphInstance.nodesArray # <<>>
    /\ GatherCandidates(graphInstance, result.args.point, 0) = <<>>
    /\ IsNode(graphInstance, result.value)

\* The positions in the node array of the nodes located at point p.
NodesAt(g, p) ==
    {i \in DOMAIN g.nodesArray : g.nodesArray[i].lat = p.lat /\ g.nodesArray[i].lon = p.lon}

SinglePointRoute(p) ==
    (result.api = "findRoute" /\ result.args.origin = p /\ result.args.destination = p)
    => /\ result.outcome = "ok"
       /\ result.value = [coordinates |-> <<<<p.lon, p.lat>>>>, distance |-> 0, waypoints |-> 1]

\* C8 as stated: queried at the coordinates of a node n, findNearestNode
\* returns n.
C8_ReturnsTheNode ==
    /\ result.api = "findNearestNode"
          => \A i \in NodesAt(graphInstance, result.args.point) :
                result.value = graphInstance.nodesArray[i]
    /\ \A p \in NearQueries :
          (graphInstance.built /\ NodesAt(graphInstance, p) # {}) => SinglePointRoute(p)

\* C8 amended: it returns the first node of the node array located at those
\* coordinates.
C8_ReturnsFirstNodeThere ==
    /\ (result.api = "findNearestNode" /\ NodesAt(graphInstance, result.args.point) # {})
          => result.value
               = graphInstance.nodesArray[SetMin(NodesAt(graphInstance, result.args.point))]
    /\ \A p \in NearQueries :
          (graphInstance.built /\ NodesAt(graphInstance, p) # {}) => SinglePointRoute(p)

C8_Witness ==
    /\ result.api = "findNearestNode"
    /\ Cardinality(NodesAt(graphInstance, result.args.point)) >= 2

\* C9: when all nodes share one latitude, the node returned is at least as
\* near to the query point as every node of the graph.
C9_GloballyNearestOnOneLatitude ==
    (/\ result.api = "findNearestNode"
     /\ graphInstance.nodesArray # <<>>
     /\ graphInstance.minLat = graphInstance.maxLat)
    => \A i \in DOMAIN graphInstance.nodesArray :
          haversineDistance(result.args.point, result.value)
             <= haversineDistance(result.args.point, graphInstance.nodesArray[i])

\* C10: findDistance(o, d) returns the distance of findRoute(o, d) and throws
\* exactly when findRoute(o, d) throws.
C10_DistanceMatchesRoute ==
    (/\ result.api = "findDistance"
     /\ lastRoute.api = "findRoute"
     /\ lastRoute.args = result.args)
    => /\ result.outcome = lastRoute.outcome
       /\ result.outcome = "ok" => result.value = lastRoute.value.distance
       /\ result.outcome = "error" => result.error = lastRoute.error

C10_Witness ==
    /\ result.api = "findDistance" /\ lastRoute.api = "findRoute"
    /\ lastRoute.args = result.args
    /\ result.outcome = "ok" /\ result.value > 0

----------------------------------------------------------------------------
(* Properties of the priority queue *)

\* C11: the index map and the heap array agree: the map's keys are the node
\* ids of the heap, it has as many entries as the heap, every heap position
\* is the one the map gives for its node id; has(id) holds exactly for the
\* ids pushed and not yet popped and isEmpty() exactly when there is none.
C11_IndexMapConsistent ==
    /\ DOMAIN nodeIdToIndex = {heap[i].nodeId : i \in DOMAIN heap}
    /\ Cardinality(DOMAIN nodeIdToIndex) = Len(heap)
    /\ \A i \in DOMAIN heap : nodeIdToIndex[heap[i].nodeId] = i - 1
    /\ \A id \in QueueIds : has(ThisQueue, id) <=> id \in DOMAIN latest
    /\ isEmpty(ThisQueue) <=> DOMAIN latest = {}

\* An update that changed a heap of at least four entries.
C11_Witness ==
    /\ queueOp.op = "update" /\ queueOp.changed
    /\ Len(heap) >= 4
    /\ \E i \in 2..Len(heap) : heap[i].fCost > heap[1].fCost

\* C12: no node id has two entries; push of an id already present leaves the
\* number of entries unchanged and gives the queue that update gives for the
\* same id and costs, whether the new fCost is lower, equal or higher.
C12_PushPresentIsUpdate ==
    /\ \A i, j \in DOMAIN heap : heap[i].nodeId = heap[j].nodeId => i = j
    /\ \A id \in DOMAIN nodeIdToIndex, c \in QueueCosts :
          /\ push(ThisQueue, Entry(id, c[1], c[2]))
                = update(ThisQueue, id, c[1], c[2]).queue
          /\ Len(push(ThisQueue, Entry(id, c[1], c[2])).heap) = Len(heap)
          /\ \E i \in DOMAIN heap :
                push(ThisQueue, Entry(id, c[1], c[2])).heap[i] = Entry(id, c[1], c[2])

\* A push of a present id that changed a queue of at least three entries.
C12_Witness ==
    /\ queueOp.op = "push" /\ queueOp.present /\ queueOp.changed
    /\ Len(heap) >= 3

\* C13: the heap array is in min-heap order, every entry carries the costs of
\* the latest push/update of its node id, pop on a non-empty queue removes
\* and returns an entry of minimal fCost with those costs, and popping the
\* only entry empties heap and map.
C13_HeapOrderAndMinimalPop ==
    /\ \A i \in 2..Len(heap) : heap[i \div 2].fCost <= heap[i].fCost
    /\ \A i \in DOMAIN heap :
          /\ heap[i].nodeId \in DOMAIN latest
          /\ Costs(heap[i]) = latest[heap[i].nodeId]
    /\ heap # <<>>
          => LET r == pop(ThisQueue)
             IN /\ \A i \in DOMAIN heap : r.ret.fCost <= heap[i].fCost
                /\ r.ret \in Elements(heap)
                /\ Costs(r.ret) = latest[r.ret.nodeId]
                /\ Elements(r.queue.heap) = Elements(heap) \ {r.ret}
                /\ Len(r.queue.heap) = Len(heap) - 1
                /\ Len(heap) = 1 => r.queue = Queue(<<>>, EmptyMap)

\* A pop that left at least three entries, in a new arrangement.
C13_Witness ==
    /\ queueOp.op = "pop" /\ queueOp.ret # Undefined
    /\ Len(heap) >= 3
    /\ \E i \in 2..Len(heap) : heap[i].fCost > heap[1].fCost

\* C14: update of an absent node id returns false and pop of an empty queue
\* returns undefined, both leaving heap and index map as they were; update
\* of a present id returns true.
C14_AbsenceChangesNothing ==
    /\ \A id \in QueueIds, c \in QueueCosts :
          IF has(ThisQueue, id)
          THEN update(ThisQueue, id, c[1], c[2]).ret = TRUE
          ELSE update(ThisQueue, id, c[1], c[2]) = [queue |-> ThisQueue, ret |-> FALSE]
    /\ heap = <<>> => pop(ThisQueue) = [queue |-> ThisQueue, ret |-> Undefined]
    /\ queueOp.op = "update"
          => /\ queueOp.ret = queueOp.present
             /\ ~queueOp.present => ~queueOp.changed
    /\ (queueOp.op = "pop" /\ queueOp.ret = Undefined) => ~queueOp.changed

\* An update of an absent id on a queue that holds other entries.
C14_Witness ==
    /\ queueOp.op = "update" /\ ~queueOp.present /\ queueOp.ret = FALSE
    /\ Len(heap) >= 2

----------------------------------------------------------------------------
(* Properties of the search entry, the graph instance and the construction *)

GoalNotFound(r) == r.outcome = "error" /\ r.error = "Goal node not found"

\* C15: aStar throws 'Goal node not found' exactly when goalId is absent
\* from the node table, and then no working state of a search exists; the
\* empty-path result is returned only for goals that exist.
C15_GoalNotFoundBeforeSearch ==
    /\ pc = "astar" => call.goalId \in DOMAIN graphInstance.nodes
    /\ result.api = "aStar"
          => /\ GoalNotFound(result)
                   <=> result.args.goalId \notin DOMAIN graphInstance.nodes
             /\ GoalNotFound(result)
                   => /\ result.astar = NoSearch
                      /\ openSet = <<>> /\ closedSet = {}
                      /\ gCost = EmptyMap /\ parent = EmptyMap
             /\ result.outcome = "ok"
                   => result.args.goalId \in DOMAIN graphInstance.nodes

\* The goal has adjacency entries but no node; the start exists.
C15_Witness ==
    /\ result.api = "aStar" /\ GoalNotFound(result)
    /\ result.args.startId \in DOMAIN graphInstance.nodes
    /\ result.args.goalId \in DOMAIN graphInstance.adjacencyList

\* C16: over any sequence of public calls the Graph is constructed at most
\* once, by the first call; every later call, also after a call that threw,
\* finds that instance, and no call runs or completes without it.
C16_GraphConstructedOnce ==
    /\ constructed <= 1
    /\ constructed = 1 <=> graphInstance.built
    /\ graphInstance.built => graphInstance = Graph(nodesData, edgesData)
    /\ (pc = "astar" \/ result # NoResult) => constructed = 1

\* A call completed after an earlier call that threw.
C16_Witness ==
    /\ lastRoute.api = "findRoute" /\ lastRoute.outcome = "error"
    /\ result.api = "findDistance"
    /\ constructed = 1

\* C17: no query changes the graph once it is constructed (node table, node
\* array, adjacency list, spatial grid, grid resolution, bounding box),
\* whether the call returns or throws, and a search starts from fresh
\* working state: only the start entry open, nothing closed, g-cost of the
\* start only, no parent link.
C17_QueriesLeaveGraphUnchanged ==
    [][/\ graphInstance.built => graphInstance' = graphInstance
       /\ ~graphInstance.built => graphInstance' = Graph(nodesData, edgesData)
       /\ (pc = "idle" /\ pc' = "astar")
             => /\ openSet' = <<Entry(call'.startId, 0, 0)>>
                /\ closedSet' = {}
                /\ gCost' = MapSet(EmptyMap, call'.startId, 0)
                /\ parent' = EmptyMap]_vars

\* A call that threw after a search, on a graph an earlier call had used.
C17_Witness ==
    /\ lastRoute.api = "findRoute" /\ lastRoute.outcome = "ok"
    /\ lastRoute.searches = 1
    /\ result.api = "findDistance" /\ result.outcome = "error"
    /\ result.searches = 1

Count(seq, x) == Cardinality({i \in DOMAIN seq : seq[i] = x})

\* The well-formed source edges (from, to, w).
SourceCount(from, to, w) ==
    Cardinality({i \in DOMAIN edgesData :
                    /\ WellFormed(edgesData[i])
                    /\ edgesData[i].items[1] = from
                    /\ edgesData[i].items[2] = to
                    /\ edgesData[i].items[3] = w})

AdjEntries(g) ==
    {<<a, i>> \in AdjIds(g) \X (1..(2 * Len(edgesData))) : i <= Len(getNeighbors(g, a))}

\* C18: after construction the adjacency list is symmetric: getNeighbors(A)
\* holds (B, w) as many times as getNeighbors(B) holds (A, w), namely once
\* for every well-formed source edge between A and B with weight w in either
\* direction, so each source edge gives one entry in each direction.
C18_AdjacencySymmetric ==
    graphInstance.built
    => LET g == graphInstance
       IN /\ \A A \in AdjIds(g), B \in AdjIds(g), w \in SearchWeights :
                /\ Count(getNeighbors(g, A), [nodeId |-> B, distance |-> w])
                      = Count(getNeighbors(g, B), [nodeId |-> A, distance |-> w])
                /\ Count(getNeighbors(g, A), [nodeId |-> B, distance |-> w])
                      = SourceCount(A, B, w) + SourceCount(B, A, w)
          /\ \A e \in AdjEntries(g) :
                /\ getNeighbors(g, e[1])[e[2]].distance \in SearchWeights
                /\ getNeighbors(g, e[1])[e[2]].nodeId \in AdjIds(g)
          /\ Cardinality(AdjEntries(g)) = 2 * Len(SelectSeq(edgesData, WellFormed))

\* The same pair listed once in each direction in the source.
C18_Witness ==
    /\ edgesData = <<Arr(<<1, 2, 2000>>), Arr(<<2, 1, 2000>>)>>
    /\ result.api = "getNeighbors" /\ result.args.nodeId = 2
    /\ Len(result.value) = 2

\* C19: entries that are not arrays or have fewer than 3 elements are
\* skipped: the constructed graph is the one built from the well-formed
\* entries alone, in their order.
C19_MalformedEntriesSkipped ==
    graphInstance.built
    => LET wfNodes == SelectSeq(nodesData, WellFormed)
           wfEdges == SelectSeq(edgesData, WellFormed)
       IN /\ graphInstance.nodesArray = [i \in DOMAIN wfNodes |-> NodeOf(wfNodes[i])]
          /\ DOMAIN graphInstance.nodes
                = {wfNodes[i].items[1] : i \in DOMAIN wfNodes}
          /\ Cardinality(AdjEntries(graphInstance)) = 2 * Len(wfEdges)
          /\ graphInstance = Graph(wfNodes, wfEdges)

\* A malformed node entry stands before a well-formed one, and a lookup
\* returned nodes.
C19_Witness ==
    /\ \E i, j \in DOMAIN nodesData :
          i < j /\ ~WellFormed(nodesData[i]) /\ WellFormed(nodesData[j])
    /\ result.api = "getNodesNearby"
    /\ Len(result.value) >= 1

Abs(x) == IF x < 0 THEN -x ELSE x

\* Where the spatial grid holds node n: the pairs <<cell key, position>>.
StoredAt(g, n) ==
    {kj \in UNION {{<<k, j>> : j \in DOMAIN g.spatialGrid[k]} : k \in DOMAIN g.spatialGrid} :
        g.spatialGrid[kj[1]][kj[2]] = n}

CellOf(g, n) == (CHOOSE kj \in StoredAt(g, n) : TRUE)[1]

\* The positions in the node array of the nodes whose cell lies in the block
\* of cells within r of the cell of (lat, lon).
Block(g, lat, lon, r) ==
    {i \in DOMAIN g.nodesArray :
        /\ Abs(CellOf(g, g.nodesArray[i])[1] - latToGrid(g, lat)) <= r
        /\ Abs(CellOf(g, g.nodesArray[i])[2] - lonToGrid(g, lon)) <= r}

\* C20: every node is stored in exactly one cell; getNodesNearby(lat, lon, r)
\* returns exactly the nodes whose cell lies in the (2r+1) by (2r+1) block
\* around the query's cell, each once (for r = 0 the nodes of the query's
\* own cell), and the result for r is contained in the result for r + 1.
C20_NearbyIsTheBlock ==
    /\ graphInstance.built
          => \A i \in DOMAIN graphInstance.nodesArray :
                Cardinality(StoredAt(graphInstance, graphInstance.nodesArray[i])) = 1
    /\ result.api = "getNodesNearby"
          => LET g == graphInstance
                 a == result.args
                 block == Block(g, a.lat, a.lon, a.searchRadius)
             IN /\ Elements(result.value) = {g.nodesArray[i] : i \in block}
                /\ Len(result.value) = Cardinality(block)
                /\ a.searchRadius = 0
                      => \A i \in DOMAIN g.nodesArray :
                            (g.nodesArray[i] \in Elements(result.value))
                               <=> CellOf(g, g.nodesArray[i])
                                     = <<latToGrid(g, a.lat), lonToGrid(g, a.lon)>>
                /\ Elements(result.value)
                      \subseteq Elements(getNodesNearby(g, a.lat, a.lon, a.searchRadius + 1))

\* A block of nine cells that holds some of the nodes and not all.
C20_Witness ==
    /\ result.api = "getNodesNearby"
    /\ graphInstance.gridResolution = 2
    /\ result.args.searchRadius = 1
    /\ Len(result.value) > 0
    /\ Len(result.value) < Len(graphInstance.nodesArray)

----------------------------------------------------------------------------
(* Properties of the grid, the resolver and the search loop *)

\* k = ceil(n / d) and k = ceil(sqrt(n)), said without computing them.
IsCeilDiv(k, n, d) == k * d >= n /\ (k - 1) * d < n
IsCeilSqrt(k, n) == k >= 0 /\ k * k >= n /\ (k = 0 \/ (k - 1) * (k - 1) < n)

\* floor(resolution * (x - lo) / (hi - lo)) for hi > lo, said without computing it.
IsFloorCell(k, x, lo, hi, resolution) ==
    /\ k * (hi - lo) <= resolution * (x - lo)
    /\ resolution * (x - lo) < (k + 1) * (hi - lo)

IsCellIndex(k, x, lo, hi, resolution) ==
    IF hi = lo THEN k = 0 ELSE IsFloorCell(k, x, lo, hi, resolution)

\* C21: on a graph with nodes, resolution = ceil(sqrt(ceil(nodeCount / 20)));
\* every node is stored in the cell floor(resolution * (coordinate - min) /
\* (max - min)) of each axis, which lies in 0..resolution; on an axis of zero
\* extent every coordinate, of a node or of a query inside or outside the
\* box, has index 0.
C21_CellAssignment ==
    (graphInstance.built /\ graphInstance.nodesArray # <<>>)
    => LET g == graphInstance
       IN /\ \E c \in 0..Len(g.nodesArray) :
                /\ IsCeilDiv(c, Len(g.nodesArray), 20)
                /\ IsCeilSqrt(g.gridResolution, c)
          /\ \A i \in DOMAIN g.nodesArray :
                LET n == g.nodesArray[i]
                    cell == CellOf(g, n)
                IN /\ StoredAt(g, n) # {}
                   /\ IsCellIndex(cell[1], n.lat, g.minLat, g.maxLat, g.gridResolution)
                   /\ IsCellIndex(cell[2], n.lon, g.minLon, g.maxLon, g.gridResolution)
                   /\ cell[1] \in 0..g.gridResolution
                   /\ cell[2] \in 0..g.gridResolution
          /\ result.api = "getNodesNearby"
                => /\ IsCellIndex(latToGrid(g, result.args.lat), result.args.lat,
                                  g.minLat, g.maxLat, g.gridResolution)
                   /\ IsCellIndex(lonToGrid(g, result.args.lon), result.args.lon,
                                  g.minLon, g.maxLon, g.gridResolution)

\* Resolution 2, with a node in the cell of index 2 and a query outside the box.
C21_Witness ==
    /\ result.api = "getNodesNearby"
    /\ graphInstance.gridResolution = 2
    /\ \E k \in DOMAIN graphInstance.spatialGrid : k[1] = 2 /\ k[2] = 2
    /\ lonToGrid(graphInstance, result.args.lon) < 0

\* The radii of 0..maxSearchRadius at which getNodesNearby finds a node.
RadiiWithNodes(g, point) ==
    {r \in 0..maxSearchRadius : getNodesNearby(g, point.lat, point.lon, r) # <<>>}

\* C22: on a graph with nodes the candidates of findNearestNode are the
\* result of getNodesNearby at the smallest radius of 0..5 where it is not
\* empty, no greater radius is queried, and when it is empty at all of 0..5
\* the full node array is scanned.
C22_CandidatesFromSmallestRadius ==
    (result.api = "findNearestNode" /\ graphInstance.nodesArray # <<>>)
    => LET g == graphInstance
           point == result.args.point
           loop == GatherLoop(g, point, 0, <<>>)
           radii == RadiiWithNodes(g, point)
       IN IF radii = {}
          THEN /\ loop.candidateNodes = <<>>
               /\ loop.searchRadius = maxSearchRadius + 1
               /\ result.value = NearestAmong(<<>>, g.nodesArray, point)
               /\ \A i \in DOMAIN g.nodesArray :
                     haversineDistance(point, result.value)
                        <= haversineDistance(point, g.nodesArray[i])
          ELSE /\ loop.candidateNodes
                     = getNodesNearby(g, point.lat, point.lon, SetMin(radii))
               /\ loop.searchRadius = SetMin(radii) + 1
               /\ result.value \in Elements(loop.candidateNodes)

\* The first node is found at the greatest radius.
C22_Witness ==
    /\ result.api = "findNearestNode"
    /\ graphInstance.nodesArray # <<>>
    /\ RadiiWithNodes(graphInstance, result.args.point) = {maxSearchRadius}

\* The sequence findNearestNode scans: the candidates, or all nodes.
Scanned(g, point) ==
    IF GatherCandidates(g, point, 0) # <<>> THEN GatherCandidates(g, point, 0)
    ELSE g.nodesArray

\* C23: the node returned is at minimal heuristic distance among the scanned
\* candidates and is the first of them at that distance; when the fallback
\* is taken it is at minimal distance among all nodes of the graph.
C23_NearestOfCandidates ==
    (result.api = "findNearestNode" /\ graphInstance.nodesArray # <<>>)
    => LET g == graphInstance
           point == result.args.point
           cands == Scanned(g, point)
           d(n) == haversineDistance(point, n)
       IN /\ \E i \in DOMAIN cands :
                /\ cands[i] = result.value
                /\ \A j \in DOMAIN cands : d(result.value) <= d(cands[j])
                /\ \A j \in 1..(i - 1) : d(cands[j]) > d(result.value)
          /\ GatherCandidates(g, point, 0) = <<>>
                => \A j \in DOMAIN g.nodesArray : d(result.value) <= d(g.nodesArray[j])

\* Two candidates at the same, minimal distance, and a third farther one
\* listed first.
C23_Witness ==
    /\ result.api = "findNearestNode"
    /\ graphInstance.nodesArray # <<>>
    /\ LET cands == Scanned(graphInstance, result.args.point)
           d(n) == haversineDistance(result.args.point, n)
       IN /\ Len(cands) >= 3
          /\ d(cands[1]) > d(result.value)
          /\ \E j \in DOMAIN cands : cands[j] # result.value /\ d(cands[j]) = d(result.value)

\* C24: the entry an iteration of aStar removes has the lowest fCost of the
\* open set and is the first such entry in the array; the first iteration
\* finds the start entry alone; every other entry removed has
\* fCost = gCost + h(node, goal).
C24_PopsLowestFCost ==
    [][(pc = "astar" /\ openSet # <<>>)
       => /\ closedSet = {} => openSet = <<Entry(call.startId, 0, 0)>>
          /\ \E nodeId \in (IF pc' = "idle" THEN {call.goalId} ELSE closedSet' \ closedSet) :
             \E i \in DOMAIN openSet :
                /\ openSet[i].nodeId = nodeId
                /\ \A j \in DOMAIN openSet : openSet[i].fCost <= openSet[j].fCost
                /\ \A j \in 1..(i - 1) : openSet[j].fCost > openSet[i].fCost
                /\ closedSet # {}
                     => openSet[i].fCost
                          = openSet[i].gCost
                              + haversineDistance(getNode(graphInstance, nodeId),
                                                  getNode(graphInstance, call.goalId))]_vars

\* After the first iteration, an open set whose lowest fCost is carried by
\* two entries, behind an entry of higher fCost.
C24_Witness ==
    /\ pc = "astar"
    /\ closedSet # {}
    /\ \E i, j \in DOMAIN openSet :
          /\ 1 < i /\ i < j
          /\ openSet[i].fCost = openSet[j].fCost
          /\ \A k \in DOMAIN openSet : openSet[i].fCost <= openSet[k].fCost
          /\ openSet[1].fCost > openSet[i].fCost

OpenIds(open) == {open[i].nodeId : i \in DOMAIN open}

\* One entry per node id in the open set, and none for a closed node.
OpenSetSound ==
    pc = "astar"
    => /\ \A i, j \in DOMAIN openSet : openSet[i].nodeId = openSet[j].nodeId => i = j
       /\ OpenIds(openSet) \cap closedSet = {}

\* An iteration that does not return closes one node that was open and not
\* closed, and leaves every closed node out of the open set with the g-cost
\* and the parent link it had.
ClosedKept ==
    (pc = "astar" /\ pc' = "astar")
    => \E n \in OpenIds(openSet) \ closedSet :
          /\ closedSet' = closedSet \cup {n}
          /\ \A c \in closedSet' :
                /\ c \notin OpenIds(openSet')
                /\ c \in DOMAIN gCost' <=> c \in DOMAIN gCost
                /\ c \in DOMAIN gCost => gCost'[c] = gCost[c]
                /\ c \in DOMAIN parent' <=> c \in DOMAIN parent
                /\ c \in DOMAIN parent => parent'[c] = parent[c]

\* What the loop body does to the working state st for one neighbor, st2
\* being the state after it. With `inTable` the open entry is required only
\* of a neighbor that is in the node table, and one that is not leaves the
\* open set as it was.
RelaxRule(g, st, st2, closed, current, goalNode, neighbor, inTable) ==
    LET id == neighbor.nodeId
        tentative == current.gCost + neighbor.distance
        unseen == id \notin DOMAIN st.g
        lower == ~unseen /\ tentative < st.g[id]
    IN IF id \in closed \/ ~(unseen \/ lower) THEN st2 = st
       ELSE /\ st2.par = MapSet(st.par, id, current.nodeId)
            /\ st2.g = MapSet(st.g, id, tentative)
            /\ IF inTable /\ getNode(g, id) = Undefined THEN st2.open = st.open
               ELSE /\ Len(st2.open) = IF id \in OpenIds(st.open) THEN Len(st.open)
                                       ELSE Len(st.open) + 1
                    /\ \E i \in DOMAIN st2.open :
                          /\ st2.open[i].nodeId = id
                          /\ st2.open[i].gCost = tentative
                          /\ \A j \in DOMAIN st.open : j # i => st2.open[j] = st.open[j]

\* The rule holds of every neighbor the next iteration relaxes, in the order
\* of the adjacency list.
RelaxedByRule(inTable) ==
    (pc = "astar" /\ openSet # <<>>)
    => LET g == graphInstance
           sorted == sortOpenSet(openSet)
           current == Head(sorted)
           closed == closedSet \cup {current.nodeId}
           goalNode == getNode(g, call.goalId)
           neighbors == getNeighbors(g, current.nodeId)
           st0 == [open |-> Tail(sorted), g |-> gCost, par |-> parent]
           Work(k) == RelaxAll(g, st0, closed, current, goalNode, SubSeq(neighbors, 1, k), 1)
       IN current.nodeId # call.goalId
          => \A k \in 1..Len(neighbors) :
                RelaxRule(g, Work(k - 1), Work(k), closed, current, goalNode,
                          neighbors[k], inTable)

\* C25 as stated: the open set holds one entry per node id and no closed
\* node, a closed node is never relaxed or re-inserted, and every neighbor
\* outside the closed set gets a parent link and a new or updated open entry
\* exactly when it was unseen or its g-cost is lowered.
C25_RelaxationOfEveryNeighbor ==
    []OpenSetSound /\ [][ClosedKept]_vars /\ []RelaxedByRule(FALSE)

\* C25, amended: the same, the open entry being made or updated only for a
\* neighbor that is in the node table; a neighbor that is not gets the
\* parent link and the g-cost and no open entry.
C25_RelaxationOfNeighborsInTable ==
    []OpenSetSound /\ [][ClosedKept]_vars /\ []RelaxedByRule(TRUE)

\* A search in which a node has been closed and an id without a node has a
\* parent link and no open entry, while another entry is open.
C25_Witness ==
    /\ pc = "astar"
    /\ closedSet # {}
    /\ openSet # <<>>
    /\ \E n \in DOMAIN parent :
          /\ getNode(graphInstance, n) = Undefined
          /\ n \notin OpenIds(openSet)
          /\ parent[n] \in closedSet

\* The path an aStar call returned.
ReturnedPath(r) == r.api = "aStar" /\ r.outcome = "ok" /\ r.value.path # <<>>

\* During a search the start has no parent link.
StartHasNoParent == pc = "astar" => call.startId \notin DOMAIN parent

\* The step on which aStar returns a path: the path is the chain of parent
\* links that ends in the goal and starts at a node without a parent link.
PathIsParentChain ==
    (pc = "astar" /\ pc' = "idle" /\ ReturnedPath(result'))
    => LET path == result'.value.path
       IN /\ path[Len(path)] = call.goalId
          /\ path[1] \notin DOMAIN parent
          /\ \A i \in 2..Len(path) : path[i] \in DOMAIN parent /\ parent[path[i]] = path[i - 1]

\* C26: a non-empty path returned by aStar begins with startId, ends with
\* goalId and holds no id twice; it is the chain of parent links walked back
\* from the goal, and the start never has a parent link; with startId equal
\* to goalId the result is the path [startId] with distance 0.
C26_PathShape ==
    /\ [](ReturnedPath(result)
          => LET path == result.value.path
             IN /\ path[1] = result.args.startId
                /\ path[Len(path)] = result.args.goalId
                /\ \A i, j \in DOMAIN path : path[i] = path[j] => i = j)
    /\ [](result.api = "aStar" /\ result.outcome = "ok"
             /\ result.args.startId = result.args.goalId
          => result.value = AStarResult(<<result.args.startId>>, 0))
    /\ []StartHasNoParent
    /\ [][PathIsParentChain]_vars

\* A returned path of three nodes, on a graph where the start has a
\* self-loop or an edge leads back to it.
C26_Witness ==
    /\ ReturnedPath(result)
    /\ Len(result.value.path) >= 3
    /\ Len(getNeighbors(graphInstance, result.value.path[2])) >= 2

\* An iteration that does not return adds one id to the closed set.
OneExpansionPerNode ==
    (pc = "astar" /\ pc' = "astar")
    => /\ closedSet \subseteq closedSet'
       /\ Cardinality(closedSet') = Cardinality(closedSet) + 1

\* Every walk along parent links ends at an id without one.
RECURSIVE WalkEnds(_, _, _)
WalkEnds(par, nodeId, k) ==
    IF nodeId \notin DOMAIN par THEN TRUE
    ELSE IF k = 0 THEN FALSE
    ELSE WalkEnds(par, par[nodeId], k - 1)

ParentAcyclic ==
    pc = "astar" => \A n \in DOMAIN parent : WalkEnds(parent, n, Cardinality(DOMAIN parent))

\* C27: a search that has started ends with aStar returning; each iteration
\* that does not return expands a node not expanded before, and the parent
\* links hold no cycle.
C27_Terminates ==
    /\ (pc = "astar") ~> (pc = "idle" /\ result.api = "aStar" /\ result.outcome = "ok")
    /\ [][OneExpansionPerNode]_vars
    /\ []ParentAcyclic

\* A search that ran out of open entries after expanding two nodes joined by
\* a zero-weight edge and a second, parallel edge.
C27_Witness ==
    /\ result.api = "aStar" /\ result.outcome = "ok"
    /\ result.value.path = <<>>
    /\ LET neighbors == getNeighbors(graphInstance, result.args.startId)
       IN \E i, j \in DOMAIN neighbors :
             /\ i # j
             /\ neighbors[i].nodeId = neighbors[j].nodeId
             /\ neighbors[i].distance = 0

\* Paths of one or two ids, the id MaxNodes + 1 never being a node.
ShortPaths == UNION {[1..k -> 1..(MaxNodes + 1)] : k \in 1..2}

\* C28: a route returned by findRoute is built from ids of the node table
\* only, one coordinate pair per id of the path; for a path that holds an id
\* without a node findRoute throws 'Node not found in graph' and returns
\* nothing; the open set never holds the target of an adjacency entry that
\* has no node, and no returned path holds one.
C28_NoMissingNodeInRoute ==
    /\ pc = "astar"
         => \A i \in DOMAIN openSet : getNode(graphInstance, openSet[i].nodeId) # Undefined
    /\ (Public(result) /\ Searched(result) /\ result.outcome = "ok")
         => /\ MissingIds(graphInstance, result.astar.path) = {}
            /\ result.api = "findRoute"
                 => result.value.coordinates = Coordinates(graphInstance, result.astar.path)
    /\ graphInstance.built
         => \A path \in ShortPaths :
               MissingIds(graphInstance, path) # {}
               => RouteResult(graphInstance, AStarResult(path, 0))
                    = [outcome |-> "error", error |-> "Node not found in graph"]

\* A route returned through a node that has an adjacency entry to an id
\* without a node.
C28_Witness ==
    /\ result.api = "findRoute" /\ result.outcome = "ok" /\ Searched(result)
    /\ LET path == result.astar.path
           neighbors == getNeighbors(graphInstance, path[1])
       IN /\ Len(path) >= 2
          /\ \E i \in DOMAIN neighbors : getNode(graphInstance, neighbors[i].nodeId) = Undefined
          /\ Len(result.value.coordinates) = Len(path)

\* C29: on the step on which aStar returns a path, the distance reported is
\* the gCost of the goal entry that was removed from the open set.
C29_DistanceIsGoalGCost ==
    [][(pc = "astar" /\ pc' = "idle" /\ ReturnedPath(result'))
       => \E i \in DOMAIN openSet :
             /\ openSet[i].nodeId = call.goalId
             /\ result'.value.distance = openSet[i].gCost]_vars

\* The g-costs during a search: that of the start is 0, that of any other id
\* is a sum of adjacency weights along its chain of parent links, which
\* begins at the start; an open entry carries the g-cost recorded for its
\* node, and its fCost is that plus the heuristic distance to the goal, the
\* initial start entry apart.
GCostsConsistent ==
    pc = "astar"
    => LET g == graphInstance
       IN /\ call.startId \in DOMAIN gCost /\ gCost[call.startId] = 0
          /\ \A n \in DOMAIN gCost :
                LET chain == reconstructPath(parent, n)
                IN /\ chain[1] = call.startId
                   /\ gCost[n] \in PathSums(g, chain, 1)
          /\ \A i \in DOMAIN openSet :
                LET e == openSet[i]
                IN /\ e.nodeId \in DOMAIN gCost
                   /\ e.gCost = gCost[e.nodeId]
                   /\ \/ closedSet = {} /\ e = Entry(call.startId, 0, 0)
                      \/ e.fCost = gCost[e.nodeId]
                                     + haversineDistance(getNode(g, e.nodeId),
                                                         getNode(g, call.goalId))

\* An iteration keeps every recorded g-cost or lowers it.
GCostNeverIncreases ==
    (pc = "astar" /\ pc' = "astar")
    => \A n \in DOMAIN gCost : n \in DOMAIN gCost' /\ gCost'[n] <= gCost[n]

\* C30: every recorded g-cost is the sum of edge weights along the parent
\* chain from the start, every open entry carries it and an fCost of g-cost
\* plus heuristic, and no g-cost increases during the run.
C30_GCostBookkeeping ==
    []GCostsConsistent /\ [][GCostNeverIncreases]_vars

\* An open entry two parent links away from the start, with a positive
\* g-cost, next to an id that has a g-cost and no node.
C30_Witness ==
    /\ pc = "astar"
    /\ \E i \in DOMAIN openSet :
          /\ openSet[i].gCost > 0
          /\ Len(reconstructPath(parent, openSet[i].nodeId)) >= 3
    /\ \E n \in DOMAIN gCost : getNode(graphInstance, n) = Undefined

====
